---- MODULE Spec2Model ----
(***************************************************************************)
(* Model of the fit-result manager (analysis/fit/result.py) and of the     *)
(* systematic toy loop (analysis/toys/syst_toys.py).                       *)
(*                                                                         *)
(* Python dictionaries are functions over their key sets, numpy matrices   *)
(* are sequences of rows, flat arrays are sequences.  Every method call is *)
(* one action; the exception a call ends with is recorded in exc and the   *)
(* value it returns in ret.                                                *)
(***************************************************************************)
EXTENDS Integers, Sequences, FiniteSets, TLC

(* ------------------------------ bounds --------------------------------- *)
MaxPars == 2        \* largest number of floating parameters of a fit
MaxConst == 1       \* largest number of constant parameters of a fit
MaxStages == 2      \* longest status history of an engine result
MaxFits == 2        \* largest configured number of toy iterations
MaxResults == 1     \* largest number of fit results a systematic is configured with
MaxData == 2        \* longest list of datasets handed to a merger
MaxBlocks == 3      \* largest number of matrices combined into one block matrix
MaxDim == 3         \* largest dimension of one of these matrices
MaxYield == 2       \* largest Poisson-sampled number of events of one PDF

(* --------------------------- program constants ------------------------- *)
CovQualGood == 3
StatusDefault == 0 - 1
_SUFFIXES == <<"", "_err_hesse", "_err_plus", "_err_minus">>

None == [none |-> TRUE]
NoExc == "none"

(* ------------------------------ input data ----------------------------- *)
FitNames == <<"a", "b", "c", "d">>
ConstNames == <<"k1", "k2", "k3">>
UnknownName == "zz"
StageLabels == {"MIGRAD", "HESSE"}
StatusCodes == {0, 1}
CovQuals == {2, 3}
AsymErrors == {<<0, 0>>, <<0 - 1, 2>>}
SampleShifts == {0, 1}
EdmValue == 3 + 4

Max(S) == CHOOSE m \in S : \A x \in S : x <= m
Min(a, b) == IF a < b THEN a ELSE b

\* OrderedDict(pairs): later pairs with the same key replace earlier ones.
OrderedDict(pairs) ==
    [k \in {pairs[i][1] : i \in DOMAIN pairs} |->
        pairs[Max({i \in DOMAIN pairs : pairs[i][1] = k})][2]]

\* A numpy matrix is the record of its rows; a flat list or 1-d array is the
\* record of its items (a 0x0 matrix and an empty list are different objects).
np_matrix(rows) == [rows |-> rows]
flat_list(items) == [items |-> items]
has_getA1(obj) == "rows" \in DOMAIN obj

\* numpy: asmatrix(array(flat).reshape(n, n)), filled row by row.
reshape(flat, n) ==
    np_matrix([row \in 1..n |-> [col \in 1..n |-> flat.items[(row - 1) * n + col]]])

\* numpy: reshape raises ValueError unless the sizes agree.
can_reshape(flat, n) == Len(flat.items) = n * n

\* getA1 flattening column by column.
getA1_mut(matrix) ==
    LET nrows == Len(matrix.rows)
        ncols == IF nrows = 0 THEN 0 ELSE Len(matrix.rows[1])
    IN  flat_list([i \in 1..(nrows * ncols) |->
            matrix.rows[((i - 1) % nrows) + 1][((i - 1) \div nrows) + 1]])

\* numpy: matrix.getA1(), the matrix flattened row by row.
getA1(matrix) ==
    LET nrows == Len(matrix.rows)
        ncols == IF nrows = 0 THEN 0 ELSE Len(matrix.rows[1])
    IN  flat_list([i \in 1..(nrows * ncols) |->
            matrix.rows[((i - 1) \div ncols) + 1][((i - 1) % ncols) + 1]])

\* dict.update / item assignment: the entries of new replace those of old.
update(old, new) == new @@ old

(* ------------------------- fit-engine results -------------------------- *)
\* The floating parameters of an engine result: RooRealVar-like objects.
FloatPar(i, asym) ==
    [name |-> FitNames[i], val |-> 10 * i, error |-> i,
     errorLo |-> asym[1], errorHi |-> asym[2]]

ConstPar(i) == [name |-> ConstNames[i], val |-> 100 + i]

\* Covariance matrices of the engine: symmetric, correlation c off-diagonal.
EngineCov(k, c) == [row \in 1..k |-> [col \in 1..k |-> IF row = col THEN 2 ELSE c]]

StatusHistories ==
    UNION {[1..n -> StageLabels \X StatusCodes] : n \in 0..MaxStages}

RooFitResults ==
    {[floatParsFinal |-> [i \in 1..k |-> FloatPar(i, asym)],
      floatParsInit |-> [i \in 1..k |-> [name |-> FitNames[i], val |-> 0]],
      constPars |-> [i \in 1..m |-> ConstPar(i)],
      covarianceMatrix |-> EngineCov(k, c),
      covQual |-> q,
      statusHistory |-> h,
      edm |-> EdmValue] :
        k \in 0..MaxPars, m \in 0..MaxConst, asym \in AsymErrors,
        c \in {0, 1}, q \in CovQuals, h \in StatusHistories}

(* --------------------------- serialized records ------------------------ *)
\* The keys of a record that to_yaml writes, without 'edm'.
RecordKeys ==
    {"fit-parameters", "fit-parameters-initial", "const-parameters",
     "covariance-matrix", "status"}

EmptyDict == [k \in {} |-> 0]
restrict(d, keys) == [k \in keys |-> d[k]]

\* Flat covariance sequences of a record with k parameters: all zero, or a
\* single entry 1 at position 2 (off the diagonal, so not symmetric) or, for
\* one parameter, at position 1.
YamlFlats(k) ==
    {flat_list([i \in 1..(k * k) |-> IF i = p THEN 1 ELSE 0]) : p \in {0, Min(2, k * k)}}

YamlStatus == UNION {[labels -> StatusCodes] : labels \in SUBSET StageLabels}

YamlRecord(k, m, flat, q, st) ==
    ("fit-parameters" :> [n \in {FitNames[i] : i \in 1..k} |-> <<1, 2, 0 - 3, 4>>]) @@
    ("fit-parameters-initial" :> [n \in {FitNames[i] : i \in 1..k} |-> 0]) @@
    ("const-parameters" :> [n \in {ConstNames[i] : i \in 1..m} |-> 5]) @@
    ("covariance-matrix" :> [quality |-> q, matrix |-> flat]) @@
    ("status" :> st) @@
    ("edm" :> EdmValue)

\* Records as to_yaml writes them: every key of the data model, flat matrix.
FullRecords ==
    {YamlRecord(k, m, flat, q, st) :
        k \in 0..MaxPars, m \in 0..MaxConst,
        flat \in UNION {YamlFlats(kk) : kk \in 0..MaxPars},
        q \in CovQuals, st \in YamlStatus}

WellShaped(rec) ==
    can_reshape(rec["covariance-matrix"]["matrix"],
                Cardinality(DOMAIN rec["fit-parameters"]))

\* Well-formed records: the required keys and K*K covariance numbers; the
\* 'edm' key is not among the required ones.
WellFormedRecords ==
    LET full == {rec \in FullRecords : WellShaped(rec)}
    IN  full \cup {restrict(rec, RecordKeys) : rec \in full}

\* Records whose covariance sequence does not have K*K numbers.
BadShapeRecords ==
    {rec \in FullRecords :
        /\ ~WellShaped(rec)
        /\ rec["const-parameters"] = EmptyDict
        /\ Cardinality(DOMAIN rec["fit-parameters"]) = 1
        /\ rec["status"] = EmptyDict
        /\ rec["covariance-matrix"]["quality"] = CovQualGood}

\* Records that lack required keys, at the top level or below
\* 'covariance-matrix'.
SampleRecord == YamlRecord(1, 1, flat_list(<<1>>), CovQualGood, [MIGRAD |-> 0])
MissingKeyRecords ==
    {restrict(SampleRecord, (RecordKeys \cup {"edm"}) \ {key}) : key \in RecordKeys}
    \cup {restrict(SampleRecord, {"edm"}), restrict(SampleRecord, {"status", "edm"})}
    \cup {[SampleRecord EXCEPT !["covariance-matrix"] = restrict(@, keys)] :
            keys \in {{}, {"quality"}, {"matrix"}}}

YamlInputs == WellFormedRecords \cup BadShapeRecords \cup MissingKeyRecords

(* ------------------------------- state --------------------------------- *)
VARIABLES
    result,        \* FitResult._result: None or the stored record
    yaml_dict,     \* the dictionary handed to the last populate call that reached
                   \* the method body, as it is after the call (None: no dictionary)
    yaml_before,   \* the same dictionary as it was before that call
    engine_pars,   \* floatParsFinal of the engine result from_roofit populated
                   \* the object from (None: not populated by from_roofit)
    load_failed,   \* a from_yaml call on this object ended with KeyError
    op,            \* the method called last
    arg,           \* its argument (engine result, skip_cov, name, include_const), NoArg if none
    ret,           \* the value it returned
    exc            \* the exception it raised, NoExc if it returned

fit_vars == <<result, yaml_dict, yaml_before, engine_pars, load_failed, op, arg, ret, exc>>

\* The toy run (syst_toys.run and main).
VARIABLES
    pc,                  \* the place run has reached
    nfits,               \* the configured number of generate/fit sequences
    fit_num,             \* the loop variable of the sampling-fit loop
    seed,                \* the seed drawn in the current iteration
    dataset,             \* the dataset generated in the current iteration
    fit_result_nominal,  \* the engine result of the nominal fit
    fit_result_rand,     \* the engine result of the randomized fit
    fit_results,         \* fit number -> record of the iteration
    store,               \* the appends made to the output store, in order
    run_exc,             \* the exception run ended with, NoExc if none
    exit_status,         \* the status main exits with, None while running
    iterations,          \* the fit numbers of the iterations started so far
    failed_at,           \* the fit numbers whose generation or fit raised
    config_problem,      \* what was wrong with the configuration, NoProblem if nothing
    fit_settings,        \* model_name, fit_strategy, do_extended, do_minos; None before
    calls                \* the calls of the loop to its collaborators, in order

run_vars ==
    <<pc, nfits, fit_num, seed, dataset, fit_result_nominal, fit_result_rand,
      fit_results, store, run_exc, exit_status, iterations, failed_at, config_problem,
      fit_settings, calls>>

\* The systematics generators (toys/systematics.py) and the mergers.
VARIABLES
    TOY_SYSTEMATICS,     \* the process-wide registry: name -> registered object
    randomizer,          \* the systematic constructed last, None before
    model_values,        \* current values of the parameters and yields of its model
    original_values,     \* their values when the systematic was constructed
    toys_call,           \* the last call in toys/systematics.py and its outcome
    merge_call           \* the last call in data/mergers.py and its outcome

syst_vars == <<randomizer, model_values, original_values>>
toys_vars == <<TOY_SYSTEMATICS, syst_vars, toys_call, merge_call>>

vars == <<fit_vars, run_vars, toys_vars>>

(* ------------------------- FitResult: decorators ----------------------- *)
\* Python truth value of self.get_result(): None and {} are false.
truth(obj) == obj # None /\ DOMAIN obj # {}

\* ensure_initialized without its check.
ensure_initialized_mut(self_result) == FALSE

\* ensure_initialized: the wrapper raises NotInitializedError.
ensure_initialized(self_result) == ~truth(self_result)

\* ensure_non_initialized without its check.
ensure_non_initialized_mut(self_result) == FALSE

\* ensure_non_initialized: the wrapper raises AlreadyInitializedError.
ensure_non_initialized(self_result) == truth(self_result)

NoArg == "-"
Return(method, value) ==
    op' = method /\ arg' = NoArg /\ ret' = value /\ exc' = NoExc /\ UNCHANGED <<run_vars, toys_vars>>
Raise(method, error) ==
    op' = method /\ arg' = NoArg /\ ret' = None /\ exc' = error /\ UNCHANGED <<run_vars, toys_vars>>

\* A method that does not touch the FitResult or the caller's objects.
ReadOnly == UNCHANGED <<result, yaml_dict, yaml_before, engine_pars, load_failed>>

(* ------------------------- FitResult: populate ------------------------- *)
pars_of(collection) ==
    [i \in DOMAIN collection |-> <<collection[i].name, collection[i].val>>]

\* The record from_roofit builds from an engine result.
from_roofit_record(roofit_result) ==
    LET float == roofit_result.floatParsFinal
        cov == roofit_result.covarianceMatrix
        nrows == Len(cov)
        ncols == IF nrows = 0 THEN 0 ELSE Len(cov[1])
    IN  ("const-parameters" :> OrderedDict(pars_of(roofit_result.constPars))) @@
        ("fit-parameters" :> OrderedDict(
            [i \in DOMAIN float |->
                <<float[i].name,
                  <<float[i].val, float[i].error, float[i].errorLo, float[i].errorHi>>>>])) @@
        ("fit-parameters-initial" :> OrderedDict(pars_of(roofit_result.floatParsInit))) @@
        ("covariance-matrix" :>
            [quality |-> roofit_result.covQual,
             matrix |-> np_matrix([row \in 1..nrows |-> [col \in 1..ncols |-> cov[row][col]]])]) @@
        ("status" :> OrderedDict(roofit_result.statusHistory)) @@
        ("edm" :> roofit_result.edm)

from_roofit ==
    IF ensure_non_initialized(result)
    THEN Raise("from_roofit", "AlreadyInitializedError") /\ ReadOnly
    ELSE \E roofit_result \in RooFitResults :
            /\ result' = from_roofit_record(roofit_result)
            /\ engine_pars' = [floatParsFinal |-> roofit_result.floatParsFinal]
            /\ op' = "from_roofit" /\ arg' = roofit_result
            /\ ret' = "self" /\ exc' = NoExc
            /\ UNCHANGED <<run_vars, toys_vars>>
            /\ yaml_dict' = None /\ yaml_before' = None
            /\ UNCHANGED load_failed

\* The required keys without 'status'.
RequiredKeys_mut ==
    {"fit-parameters", "fit-parameters-initial", "const-parameters", "covariance-matrix"}

\* Lines 125-132: the keys from_yaml asks for.
RequiredKeys ==
    {"fit-parameters", "fit-parameters-initial", "const-parameters",
     "covariance-matrix", "status"}
CovarianceKeys == {"quality", "matrix"}

\* The dictionary from_yaml stores: the caller's, its matrix reshaped in place.
from_yaml_record(d) ==
    [d EXCEPT !["covariance-matrix"]["matrix"] =
        reshape(@, Cardinality(DOMAIN d["fit-parameters"]))]

from_yaml ==
    IF ensure_non_initialized(result)
    THEN Raise("from_yaml", "AlreadyInitializedError") /\ ReadOnly
    ELSE \E d \in YamlInputs :
            /\ yaml_before' = d
            /\ UNCHANGED engine_pars
            /\ IF ~(RequiredKeys \subseteq DOMAIN d)
               THEN /\ Raise("from_yaml", "KeyError")
                    /\ load_failed' = TRUE
                    /\ yaml_dict' = d
                    /\ UNCHANGED result
               ELSE IF ~(CovarianceKeys \subseteq DOMAIN d["covariance-matrix"])
               THEN /\ Raise("from_yaml", "KeyError")
                    /\ load_failed' = TRUE
                    /\ yaml_dict' = d
                    /\ UNCHANGED result
               ELSE IF ~WellShaped(d)
               THEN /\ Raise("from_yaml", "ValueError")
                    /\ yaml_dict' = d
                    /\ UNCHANGED <<result, load_failed>>
               ELSE /\ yaml_dict' = from_yaml_record(d)
                    /\ result' = yaml_dict'
                    /\ Return("from_yaml", "self")
                    /\ UNCHANGED load_failed

\* load_config(path, validate=keys): the mapping stored in the file; OSError
\* when there is no file, ConfigError when a validated key is missing.
NoFile == [nofile |-> TRUE]
FileStatus == {EmptyDict, [MIGRAD |-> 0, HESSE |-> 1]}
FileContents ==
    {NoFile} \cup {rec \in WellFormedRecords : rec["status"] \in FileStatus}
             \cup MissingKeyRecords

load_config(content) ==
    IF content = NoFile THEN [error |-> "OSError"]
    ELSE IF ~(RequiredKeys \subseteq DOMAIN content) THEN [error |-> "ConfigError"]
    ELSE IF ~(CovarianceKeys \subseteq DOMAIN content["covariance-matrix"])
    THEN [error |-> "ConfigError"]
    ELSE [error |-> NoExc, config |-> content]

from_yaml_file ==
    IF ensure_non_initialized(result)
    THEN Raise("from_yaml_file", "AlreadyInitializedError") /\ ReadOnly
    ELSE \E content \in FileContents :
            LET loaded == load_config(content)
            IN  /\ yaml_dict' = None /\ yaml_before' = None
                /\ UNCHANGED <<engine_pars, load_failed>>
                /\ IF loaded.error = "ConfigError"
                   THEN Raise("from_yaml_file", "KeyError") /\ UNCHANGED result
                   ELSE IF loaded.error = "OSError"
                   THEN Raise("from_yaml_file", "OSError") /\ UNCHANGED result
                   ELSE result' = loaded.config /\ Return("from_yaml_file", "self")

from_hdf ==
    IF ensure_non_initialized(result)
    THEN Raise("from_hdf", "AlreadyInitializedError") /\ ReadOnly
    ELSE /\ Return("from_hdf", "self")
         /\ yaml_dict' = None /\ yaml_before' = None
         /\ UNCHANGED <<result, engine_pars, load_failed>>

(* ------------------------- FitResult: accessors ------------------------ *)
Returns(value) == [exc |-> NoExc, ret |-> value]
Raises(error) == [exc |-> error, ret |-> None]

\* to_yaml: a deep copy whose matrix is the flattened stored matrix.
\* to_yaml flattening the matrix of the stored record itself (no deep copy).
to_yaml_value_mut(self_result) ==
    IF ~has_getA1(self_result["covariance-matrix"]["matrix"])
    THEN [exc |-> "AttributeError", ret |-> None, stored |-> self_result]
    ELSE [exc |-> NoExc,
          ret |-> [self_result EXCEPT !["covariance-matrix"]["matrix"] = getA1(@)],
          stored |-> [self_result EXCEPT !["covariance-matrix"]["matrix"] = getA1(@)]]

\* stored is the record the FitResult holds after the call.
to_yaml_value(self_result) ==
    IF ~has_getA1(self_result["covariance-matrix"]["matrix"])
    THEN [exc |-> "AttributeError", ret |-> None, stored |-> self_result]
    ELSE [exc |-> NoExc,
          ret |-> [self_result EXCEPT !["covariance-matrix"]["matrix"] = getA1(@)],
          stored |-> self_result]

\* The columns to_plain_dict makes of the fit parameters: zip(param, _SUFFIXES).
fit_columns(fit_parameters) ==
    LET cells == {<<name, i>> : name \in DOMAIN fit_parameters, i \in 1..Len(_SUFFIXES)}
        used == {c \in cells : c[2] <= Len(fit_parameters[c[1]])}
    IN  [column \in {c[1] \o _SUFFIXES[c[2]] : c \in used} |->
            LET c == CHOOSE c \in used : c[1] \o _SUFFIXES[c[2]] = column
            IN  fit_parameters[c[1]][c[2]]]

\* dict.get(key, default)
get(d, key, default) == IF key \in DOMAIN d THEN d[key] ELSE default

to_plain_dict_value(self_result, skip_cov) ==
    LET pars == update(fit_columns(self_result["fit-parameters"]),
                       self_result["const-parameters"])
        status == self_result["status"]
        summary ==
            ("status_migrad" :> get(status, "MIGRAD", StatusDefault)) @@
            ("status_hesse" :> get(status, "HESSE", StatusDefault)) @@
            ("status_minos" :> get(status, "MINOS", StatusDefault)) @@
            ("cov_quality" :> self_result["covariance-matrix"]["quality"])
        matrix == self_result["covariance-matrix"]["matrix"]
    IN  IF "edm" \notin DOMAIN self_result THEN Raises("KeyError")
        ELSE LET pandas_dict == update(update(pars, summary), "edm" :> self_result["edm"])
             IN  IF skip_cov THEN Returns(pandas_dict)
                 ELSE IF ~has_getA1(matrix) THEN Raises("AttributeError")
                 ELSE Returns(update(pandas_dict, "cov_matrix" :> getA1(matrix)))

lookup(d, name) == IF name \in DOMAIN d THEN Returns(d[name]) ELSE Raises("KeyError")

get_fit_parameter_value(self_result, name) == lookup(self_result["fit-parameters"], name)
\* get_const_parameter looking the name up among the fit parameters.
get_const_parameter_value_mut(self_result, name) ==
    lookup(self_result["fit-parameters"], name)

get_const_parameter_value(self_result, name) == lookup(self_result["const-parameters"], name)
get_edm_value(self_result) == lookup(self_result, "edm")

\* has_converged without the check of the covariance quality.
has_converged_value_mut(self_result) ==
    ~(\E label \in DOMAIN self_result["status"] : self_result["status"][label] # 0)

\* has_converged: no status code is true (non-zero) and the quality is 3.
has_converged_value(self_result) ==
    /\ ~(\E label \in DOMAIN self_result["status"] : self_result["status"][label] # 0)
    /\ self_result["covariance-matrix"]["quality"] = CovQualGood

\* The names whose lookup is tried: the known ones and one unknown.
LookupNames ==
    {FitNames[i] : i \in 1..MaxPars} \cup {ConstNames[i] : i \in 1..MaxConst} \cup {UnknownName}

\* None[key]: Python raises TypeError, None is not subscriptable.
subscriptable(obj) == obj # None

\* A call of a decorated read accessor: the wrapper's check, then the method.
Called(method, argument, outcome) ==
    /\ UNCHANGED <<run_vars, toys_vars>>
    /\ op' = method
    /\ arg' = argument
    /\ IF ensure_initialized(result)
       THEN ret' = None /\ exc' = "NotInitializedError"
       ELSE IF ~subscriptable(result)
       THEN ret' = None /\ exc' = "TypeError"
       ELSE ret' = outcome.ret /\ exc' = outcome.exc

\* The record the FitResult holds after a to_yaml call.
Stored(outcome) ==
    IF ensure_initialized(result) \/ ~subscriptable(result) THEN result ELSE outcome.stored

to_yaml ==
    /\ Called("to_yaml", NoArg, to_yaml_value(result))
    /\ result' = Stored(to_yaml_value(result))
    /\ UNCHANGED <<yaml_dict, yaml_before, engine_pars, load_failed>>

\* to_yaml_file: write_config(self.to_yaml(), file_name); the written mapping
\* is returned together with the file name.
to_yaml_file ==
    /\ Called("to_yaml_file", NoArg,
              IF to_yaml_value(result).exc # NoExc
              THEN Raises(to_yaml_value(result).exc)
              ELSE Returns([file_name |-> "path", written |-> to_yaml_value(result).ret]))
    /\ result' = Stored(to_yaml_value(result))
    /\ UNCHANGED <<yaml_dict, yaml_before, engine_pars, load_failed>>

to_plain_dict ==
    /\ ReadOnly
    /\ \E skip_cov \in BOOLEAN :
        Called("to_plain_dict", skip_cov, to_plain_dict_value(result, skip_cov))

get_fit_parameter ==
    /\ ReadOnly
    /\ \E name \in LookupNames :
        Called("get_fit_parameter", name, get_fit_parameter_value(result, name))

get_const_parameter ==
    /\ ReadOnly
    /\ \E name \in LookupNames :
        Called("get_const_parameter", name, get_const_parameter_value(result, name))

get_fit_parameters ==
    /\ ReadOnly
    /\ Called("get_fit_parameters", NoArg, Returns(result["fit-parameters"]))

get_covariance_matrix ==
    /\ ReadOnly
    /\ Called("get_covariance_matrix", NoArg, Returns(result["covariance-matrix"]["matrix"]))

get_edm ==
    /\ ReadOnly
    /\ Called("get_edm", NoArg, get_edm_value(result))

has_converged ==
    /\ ReadOnly
    /\ Called("has_converged", NoArg, Returns(has_converged_value(result)))

\* numpy.random.multivariate_normal(mean, cov): one draw per component, here the
\* mean moved by one of SampleShifts.  ValueError unless cov is two-dimensional;
\* for no parameters at all the outcome depends on the numpy build.
multivariate_normal(mean, cov) ==
    IF ~has_getA1(cov)
    THEN {Raises("ValueError")}
    ELSE IF Len(mean) = 0
    THEN {Raises("LinAlgError"), Returns(<<>>)}
    ELSE {Returns([i \in DOMAIN mean |-> mean[i] + shift[i]]) :
            shift \in [DOMAIN mean -> SampleShifts]}

\* The keys of the fit parameters in the order of FitNames.
ordered_keys(d) ==
    LET n == Cardinality(DOMAIN d)
    IN  [i \in 1..n |-> FitNames[i]]

generate_random_pars_value(self_result, include_const, draw) ==
    IF draw.exc # NoExc THEN draw
    ELSE LET keys == ordered_keys(self_result["fit-parameters"])
             output == OrderedDict([i \in DOMAIN draw.ret |-> <<keys[i], draw.ret[i]>>])
         IN  Returns(IF include_const
                     THEN update(output, self_result["const-parameters"])
                     ELSE output)

generate_random_pars ==
    /\ ReadOnly
    /\ \E include_const \in BOOLEAN :
        IF ensure_initialized(result) \/ ~subscriptable(result)
        THEN Called("generate_random_pars", include_const, Raises("TypeError"))
        ELSE LET keys == ordered_keys(result["fit-parameters"])
                 mean == [i \in DOMAIN keys |-> result["fit-parameters"][keys[i]][1]]
             IN  \E draw \in multivariate_normal(mean, result["covariance-matrix"]["matrix"]) :
                    Called("generate_random_pars", include_const,
                           generate_random_pars_value(result, include_const, draw))

(* --------------------------- the FitResult object ---------------------- *)
FitInit ==
    /\ result = None
    /\ yaml_dict = None
    /\ yaml_before = None
    /\ engine_pars = None
    /\ load_failed = FALSE
    /\ op = "__init__"
    /\ arg = NoArg
    /\ ret = None
    /\ exc = NoExc

FitNext ==
    \/ from_roofit
    \/ from_yaml
    \/ from_yaml_file
    \/ from_hdf
    \/ to_yaml
    \/ to_yaml_file
    \/ to_plain_dict
    \/ get_fit_parameter
    \/ get_const_parameter
    \/ get_fit_parameters
    \/ get_covariance_matrix
    \/ get_edm
    \/ has_converged
    \/ generate_random_pars

(* ------------------------------ the toy run ---------------------------- *)
Seeds == {11, 22}
Datasets == {"GenData1", "GenData2"}

\* Exceptions a collaborator (randomizer, fit engine) may raise.
Exceptions == {"ValueError", "KeyError", "OSError", "AttributeError", "RuntimeError"}

\* The engine results the fits of a toy return.
ToyFitResults ==
    {r \in RooFitResults :
        /\ r.statusHistory = <<>>
        /\ r.constPars = <<>>
        /\ r.floatParsFinal # <<>>
        /\ \A i \in DOMAIN r.floatParsFinal : r.floatParsFinal[i].errorLo = 0
        /\ \A i \in DOMAIN r.covarianceMatrix :
             \A j \in DOMAIN r.covarianceMatrix : i # j => r.covarianceMatrix[i][j] = 0}

\* What can be wrong with the configuration, and the exception run raises.
ConfigProblems ==
    [unreadable |-> "OSError",
     missing_keys |-> "KeyError",
     yaml_key_error |-> "UnboundLocalError",
     missing_model |-> "KeyError",
     bad_model |-> "ValueError",
     bad_acceptance |-> "KeyError",
     missing_syst |-> "KeyError"]

NoProblem == "no_problem"

\* Lines 77, 108, 120, 121: the defaults and one configuration that sets all four.
FitSettings ==
    {[model_name |-> "model", fit_strategy |-> "simple",
      do_extended |-> FALSE, do_minos |-> FALSE],
     [model_name |-> "signal", fit_strategy |-> "robust",
      do_extended |-> TRUE, do_minos |-> TRUE]}

\* A call of the loop body: what was called, in which iteration, with what.
Call(step, iteration, argument) ==
    [step |-> step, fit_num |-> iteration, with |-> argument]

RunInit ==
    /\ pc = "start"
    /\ nfits = 0
    /\ fit_num = 0 - 1
    /\ seed = None
    /\ dataset = None
    /\ fit_result_nominal = None
    /\ fit_result_rand = None
    /\ fit_results = EmptyDict
    /\ store = <<>>
    /\ run_exc = NoExc
    /\ exit_status = None
    /\ iterations = <<>>
    /\ failed_at = {}
    /\ config_problem = NoProblem
    /\ fit_settings = None
    /\ calls = <<>>

\* run raises error: nothing below the raise statement is executed.
RunRaise(error) == run_exc' = error /\ pc' = "raised"

\* Lines 60-121: configuration, models, acceptance, randomizer.
load_configuration ==
    /\ pc = "start"
    /\ UNCHANGED <<fit_vars, toys_vars, fit_num, seed, dataset, fit_result_nominal, fit_result_rand,
                   fit_results, store, exit_status, iterations, failed_at, calls>>
    /\ \/ \E problem \in DOMAIN ConfigProblems :
            /\ RunRaise(ConfigProblems[problem])
            /\ config_problem' = problem
            /\ UNCHANGED <<nfits, fit_settings>>
       \/ \E n \in 0..MaxFits, settings \in FitSettings :
            /\ nfits' = n
            /\ fit_settings' = settings
            /\ pc' = "loop"
            /\ UNCHANGED <<run_exc, config_problem>>

\* Lines 122-129: the loop head; a fresh seed for both generators.
next_iteration ==
    /\ pc = "loop"
    /\ UNCHANGED <<fit_vars, toys_vars, nfits, dataset, fit_result_nominal, fit_result_rand,
                   fit_results, store, run_exc, exit_status, failed_at, config_problem,
                   fit_settings>>
    /\ IF fit_num + 1 < nfits
       THEN /\ fit_num' = fit_num + 1
            /\ \E s \in Seeds : seed' = s
            /\ iterations' = Append(iterations, fit_num')
            /\ calls' = Append(calls, Call("seed", fit_num', [numpy |-> seed', root |-> seed']))
            /\ pc' = "generate"
       ELSE pc' = "loop_over" /\ UNCHANGED <<fit_num, seed, iterations, calls>>

\* A handler that raises the exception it caught again.
except_handler_mut(error) == error

\* Lines 150-154: both handlers of the try block raise RuntimeError.
except_handler(error) == "RuntimeError"

\* An exception raised inside the try block of the iteration.
RaisedInTry(error) ==
    /\ RunRaise(except_handler(error))
    /\ failed_at' = failed_at \cup {fit_num}

\* A get_dataset that generates first and randomizes the model afterwards.
get_dataset_steps_mut(do_randomize) ==
    <<"generate">> \o (IF do_randomize THEN <<"randomize">> ELSE <<>>)

\* systematics.py, lines 155-183: get_dataset randomizes once, if asked to,
\* before anything is generated.
get_dataset_steps(do_randomize) ==
    (IF do_randomize THEN <<"randomize">> ELSE <<>>) \o <<"generate">>

\* The first n steps of get_dataset as calls of the current iteration.
steps_done(steps, n, made) ==
    [k \in 1..n |-> Call(steps[k], fit_num, IF steps[k] = "generate" THEN made ELSE None)]

\* Lines 132-133: the randomized dataset.  A call that raises has completed
\* none or some of its steps, never the last.
generate ==
    /\ pc = "generate"
    /\ UNCHANGED <<fit_vars, toys_vars, nfits, fit_num, seed, fit_result_nominal, fit_result_rand,
                   fit_results, store, exit_status, iterations, config_problem, fit_settings>>
    /\ LET steps == get_dataset_steps(TRUE)
       IN  \/ \E error \in Exceptions, n \in 0..(Len(steps) - 1) :
                /\ RaisedInTry(error)
                /\ calls' = calls \o steps_done(steps, n, None)
                /\ UNCHANGED dataset
           \/ \E data \in Datasets :
                /\ dataset' = data
                /\ calls' = calls \o steps_done(steps, Len(steps), [dataset |-> data])
                /\ pc' = "fit_nominal"
                /\ UNCHANGED <<run_exc, failed_at>>

\* Lines 134-148: the arguments of a call of fit.
fit_call(step, model) ==
    Call(step, fit_num, [model |-> model, dataset |-> dataset, settings |-> fit_settings])

\* Lines 134-140: the fit of the dataset with the nominal model.
fit_nominal ==
    /\ pc = "fit_nominal"
    /\ UNCHANGED <<fit_vars, toys_vars, nfits, fit_num, seed, dataset, fit_result_rand,
                   fit_results, store, exit_status, iterations, config_problem, fit_settings>>
    /\ calls' = Append(calls, fit_call("fit_nominal", "fit_model"))
    /\ \/ \E error \in Exceptions : RaisedInTry(error) /\ UNCHANGED fit_result_nominal
       \/ \E fitted \in ToyFitResults :
            /\ fit_result_nominal' = fitted
            /\ pc' = "fit_rand"
            /\ UNCHANGED <<run_exc, failed_at>>

\* Lines 142-148: the fit of the same dataset with the randomized model.
fit_rand ==
    /\ pc = "fit_rand"
    /\ UNCHANGED <<fit_vars, toys_vars, nfits, fit_num, seed, dataset, fit_result_nominal,
                   fit_results, store, exit_status, iterations, config_problem, fit_settings>>
    /\ calls' = Append(calls, fit_call("fit_rand", "randomizer_model"))
    /\ \/ \E error \in Exceptions : RaisedInTry(error) /\ UNCHANGED fit_result_rand
       \/ \E fitted \in ToyFitResults :
            /\ fit_result_rand' = fitted
            /\ pc' = "record"
            /\ UNCHANGED <<run_exc, failed_at>>

\* Line 159: FitResult.from_roofit(fit_result_rand) calls the decorated method
\* on the class, so the engine result takes the place of self.  Python 2
\* rejects the unbound call (TypeError); in Python 3 the wrapper asks the
\* engine result for get_result (AttributeError).
unbound_from_roofit == {"TypeError", "AttributeError"}

\* A loop body that appends the row of the iteration to the store at once.
store_in_loop_mut(hdf_file) == Append(hdf_file, [key |-> "fit_results", rows |-> 1])

\* Lines 155-170: the loop body keeps its record in the dictionary fit_results
\* and appends nothing to the output store.
store_in_loop(hdf_file) == hdf_file

\* Lines 159-168: line 159 raises, so none of the destruct_object calls of
\* lines 162, 167 and 168 is made.
destruct_calls(iteration) == <<>>

\* Lines 155-169: the record of the iteration.
record ==
    /\ pc = "record"
    /\ UNCHANGED <<fit_vars, toys_vars, nfits, fit_num, seed, dataset, fit_result_nominal,
                   fit_result_rand, fit_results, exit_status, iterations, failed_at,
                   config_problem, fit_settings>>
    /\ store' = store_in_loop(store)
    /\ calls' = calls \o destruct_calls(fit_num)
    /\ \E error \in unbound_from_roofit : RunRaise(error)

\* Lines 171-227: the loop is over.  Line 172 divides by nfits; line 179 reads
\* the key 'fit_num' of a record that has the key 'fitnum'.
loop_over ==
    /\ pc = "loop_over"
    /\ UNCHANGED <<fit_vars, toys_vars, nfits, fit_num, seed, dataset, fit_result_nominal,
                   fit_result_rand, fit_results, store, exit_status, iterations, failed_at,
                   config_problem, fit_settings, calls>>
    /\ IF nfits = 0 THEN RunRaise("ZeroDivisionError") ELSE RunRaise("KeyError")

\* main, lines 262-285: the except clauses in their order.
exit_code(error) ==
    CASE error = NoExc -> 0
      [] error = "KeyError" -> 1
      [] error = "OSError" -> 2
      [] error = "ValueError" -> 3
      [] error = "RuntimeError" -> 4
      [] error = "AttributeError" -> 5
      [] OTHER -> 128

main ==
    /\ pc = "raised"
    /\ exit_status' = exit_code(run_exc)
    /\ pc' = "exited"
    /\ UNCHANGED <<fit_vars, toys_vars, nfits, fit_num, seed, dataset, fit_result_nominal,
                   fit_result_rand, fit_results, store, run_exc, iterations, failed_at,
                   config_problem, fit_settings, calls>>

RunNext ==
    \/ load_configuration
    \/ next_iteration
    \/ generate
    \/ fit_nominal
    \/ fit_rand
    \/ record
    \/ loop_over
    \/ main

(* -------------------- toys: the systematics registry ------------------- *)
\* Python objects as isinstance sees them: a class object or an instance.
ClassObject(class_name) == [kind |-> "class", name |-> class_name]
InstanceOf(class_name) == [kind |-> "instance", name |-> class_name]

\* The classes a class derives from, itself included.
mro(class_name) ==
    IF class_name = "FixedParamsSyst"
    THEN {"FixedParamsSyst", "Systematic", "object"}
    ELSE {class_name, "object"}

\* isinstance(obj, cls): a class object is an instance of type, not of cls.
isinstance(obj, class_name) == obj.kind = "instance" /\ class_name \in mro(obj.name)

SystNames == {"fixed", "other"}
UnknownSyst == "unknown"
SystClasses ==
    {ClassObject("Systematic"), ClassObject("FixedParamsSyst"), ClassObject("FitResult"),
     InstanceOf("FixedParamsSyst")}
SystConfigs == {EmptyDict} \cup {[type |-> name] : name \in SystNames \cup {UnknownSyst}}

\* get_global_var('TOY_SYSTEMATICS'): the process-wide dictionary.
get_global_var(registry) == registry

ToysReturn(method, argument, value) ==
    toys_call' = [op |-> method, arg |-> argument, ret |-> value, exc |-> NoExc]
ToysRaise(method, argument, error) ==
    toys_call' = [op |-> method, arg |-> argument, ret |-> None, exc |-> error]

register_systematic ==
    /\ UNCHANGED <<fit_vars, run_vars, syst_vars, merge_call>>
    /\ \E name \in SystNames, syst_class \in SystClasses :
        LET argument == [name |-> name, syst_class |-> syst_class]
        IN  IF ~isinstance(syst_class, "Systematic")
            THEN /\ ToysRaise("register_systematic", argument, "ValueError")
                 /\ UNCHANGED TOY_SYSTEMATICS
            ELSE /\ TOY_SYSTEMATICS' =
                        update(get_global_var(TOY_SYSTEMATICS), name :> syst_class)
                 /\ ToysReturn("register_systematic", argument,
                               Cardinality(DOMAIN TOY_SYSTEMATICS'))

get_systematic ==
    /\ UNCHANGED <<fit_vars, run_vars, syst_vars, merge_call, TOY_SYSTEMATICS>>
    /\ \E syst_config \in SystConfigs :
        IF "type" \notin DOMAIN syst_config
        THEN ToysRaise("get_systematic", syst_config, "KeyError")
        ELSE IF syst_config.type \notin DOMAIN get_global_var(TOY_SYSTEMATICS)
        THEN ToysRaise("get_systematic", syst_config, "KeyError")
        ELSE ToysReturn("get_systematic", syst_config,
                        get_global_var(TOY_SYSTEMATICS)[syst_config.type])

(* ------------------------ toys: Systematic ----------------------------- *)
\* Physics factories: a model with its own variables and labelled children.
Leaf(extended, variables) ==
    [extended |-> extended, simultaneous |-> FALSE, children |-> <<>>,
     variables |-> variables]
Composite(extended, simultaneous, children) ==
    [extended |-> extended, simultaneous |-> simultaneous, children |-> children,
     variables |-> UNION {children[i].child.variables : i \in DOMAIN children}]
Child(label, factory) == [label |-> label, child |-> factory]

Models ==
    {Leaf(TRUE, {"mu"}),
     Leaf(FALSE, {"mu"}),
     Composite(FALSE, TRUE, <<Child("l1", Leaf(FALSE, {"mu"}))>>),
     Composite(TRUE, TRUE, <<Child("l1", Leaf(TRUE, {"mu"})),
                             Child("l2", Leaf(TRUE, {"sigma"}))>>),
     Composite(TRUE, FALSE, <<Child("l1", Leaf(TRUE, {"mu"})),
                              Child("l2", Leaf(TRUE, {"sigma"}))>>)}

\* The key None of a Python dictionary.
NoLabel == "None"

\* get_extended_pdf(name, title, yield): the PDF with the variables of the model.
get_extended_pdf(pdf_model) == [variables |-> pdf_model.variables]

\* Lines 88-129.  In the non-extended simultaneous branch line 108 asks the bound
\* method get_children for keys(): AttributeError, turned into ValueError.
RECURSIVE get_pdfs_to_generate(_, _, _)
RECURSIVE split_children(_, _, _)
split_children(pdf_model, i, output) ==
    IF i > Len(pdf_model.children) THEN output
    ELSE LET label == pdf_model.children[i].label
             pdfs == get(get_pdfs_to_generate(pdf_model.children[i].child, None, None).ret,
                         NoLabel, <<>>)
         IN  split_children(pdf_model, i + 1,
                IF pdf_model.simultaneous
                THEN update(output, label :> pdfs)
                ELSE update(output, NoLabel :> (get(output, NoLabel, <<>>) \o pdfs)))

get_pdfs_to_generate(pdf_model, pdf_config, config) ==
    IF ~pdf_model.extended
    THEN IF pdf_model.simultaneous
         THEN Raises("ValueError")
         ELSE IF "yield" \in DOMAIN config
         THEN Returns(NoLabel :> <<get_extended_pdf(pdf_model)>>)
         ELSE Raises("ValueError")
    ELSE IF /\ pdf_model.children # <<>>
            /\ \A i \in DOMAIN pdf_model.children : pdf_model.children[i].child.extended
    THEN Returns(split_children(pdf_model, 1, EmptyDict))
    ELSE Returns(NoLabel :> <<get_extended_pdf(pdf_model)>>)

\* Lines 131-136: the object Systematic.__init__ leaves behind.
Systematic_new(class_name, model, config) ==
    LET the_config == IF config = None THEN EmptyDict ELSE config
        gen_pdfs == get_pdfs_to_generate(model, the_config, the_config)
    IN  IF gen_pdfs.exc # NoExc THEN gen_pdfs
        ELSE Returns([cls |-> class_name,
                      _gen_pdfs |-> gen_pdfs.ret,
                      _model |-> model,
                      _input_values |-> None,
                      _config |-> the_config])

\* The values of the generation parameters and yields of a new model.
InitialValue == 1
FittedValues == {2}
YieldVar == "N"
gen_values(model) == [name \in model.variables \cup {YieldVar} |-> InitialValue]

BaseConfigs == {None, [yield |-> 10]}

\* The model handed to a new systematic is a freshly configured one.
Constructed(method, argument, made) ==
    IF made.exc # NoExc
    THEN /\ ToysRaise(method, argument, made.exc)
         /\ UNCHANGED <<randomizer, model_values, original_values>>
    ELSE /\ randomizer' = made.ret
         /\ model_values' = gen_values(argument.model)
         /\ original_values' = model_values'
         /\ ToysReturn(method, argument, "self")

Systematic_init ==
    /\ UNCHANGED <<fit_vars, run_vars, merge_call, TOY_SYSTEMATICS>>
    /\ \E model \in Models, config \in BaseConfigs :
        Constructed("Systematic", [model |-> model, config |-> config],
                    Systematic_new("Systematic", model, config))

\* Lines 201-211: computed from the model at the first call, kept afterwards.
input_values(self, values) ==
    IF self._input_values = None
    THEN [name \in DOMAIN values |-> <<values[name]>>]
    ELSE self._input_values

get_input_values ==
    /\ randomizer # None
    /\ UNCHANGED <<fit_vars, run_vars, merge_call, TOY_SYSTEMATICS,
                   model_values, original_values>>
    /\ randomizer' = [randomizer EXCEPT !._input_values = input_values(randomizer, model_values)]
    /\ ToysReturn("get_input_values", NoArg, randomizer'._input_values)

\* syst_toys.py, lines 142-148: the fit of the randomizer's model leaves the
\* parameters of that model at their fitted values.
fit_model ==
    /\ randomizer # None
    /\ UNCHANGED <<fit_vars, run_vars, merge_call, TOY_SYSTEMATICS,
                   randomizer, original_values>>
    /\ \E fitted \in FittedValues :
        /\ model_values' = [name \in DOMAIN model_values |-> fitted]
        /\ ToysReturn("fit", NoArg, fitted)

(* ---------------------- toys: FixedParamsSyst -------------------------- *)
\* The fit results of earlier fits, by the name they are stored under.
PriorResult == YamlRecord(2, 0, flat_list(<<2, 0, 0, 2>>), CovQualGood, [MIGRAD |-> 0])
PriorFiles ==
    [prior |-> PriorResult,
     nofile |-> NoFile,
     broken |-> restrict(PriorResult, DOMAIN PriorResult \ {"status"})]

\* param_names: name in the fit result -> name in the generation model.
ParamMaps == {[a |-> "mu"], [a |-> UnknownName]}
ResultConfigs ==
    {[result |-> file, param_names |-> names] :
        file \in DOMAIN PriorFiles, names \in ParamMaps}
FixedConfigs ==
    {EmptyDict} \cup
    {[syst |-> results] :
        results \in UNION {[1..n -> ResultConfigs] : n \in 0..MaxResults}}

\* numpy: shape of a two-dimensional array.
shape0(mat) == Len(mat.rows)
shape1(mat) == IF Len(mat.rows) = 0 THEN 0 ELSE Len(mat.rows[1])

RECURSIVE sum_shape0(_, _)
sum_shape0(matrices, n) ==
    IF n = 0 THEN 0 ELSE sum_shape0(matrices, n - 1) + shape0(matrices[n])
\* A column offset that is set to the width of the last matrix, not advanced by it.
sum_shape1_mut(matrices, n) ==
    IF n = 0 THEN 0 ELSE shape1(matrices[n])

RECURSIVE sum_shape1(_, _)
sum_shape1(matrices, n) ==
    IF n = 0 THEN 0 ELSE sum_shape1(matrices, n - 1) + shape1(matrices[n])

\* Lines 241-259: the matrices along the diagonal of a matrix of zeros.
make_block(matrices) ==
    LET nrows == sum_shape0(matrices, Len(matrices))
        ncols == sum_shape1(matrices, Len(matrices))
        inside(k, row, col) ==
            /\ row > sum_shape0(matrices, k - 1) /\ row <= sum_shape0(matrices, k)
            /\ col > sum_shape1(matrices, k - 1) /\ col <= sum_shape1(matrices, k)
    IN  np_matrix([row \in 1..nrows |-> [col \in 1..ncols |->
            IF \E k \in DOMAIN matrices : inside(k, row, col)
            THEN LET k == CHOOSE k \in DOMAIN matrices : inside(k, row, col)
                 IN  matrices[k].rows[row - sum_shape0(matrices, k - 1)]
                                     [col - sum_shape1(matrices, k - 1)]
            ELSE 0]])

\* numpy.diag(values): the square matrix with the values on its diagonal.
np_diag(values) ==
    np_matrix([row \in DOMAIN values |-> [col \in DOMAIN values |->
        IF row = col THEN values[row] ELSE 0]])

\* The keys of an OrderedDict of fit-result names, in their order.
keys_in_order(d) == SelectSeq(FitNames, LAMBDA name : name \in DOMAIN d)

\* fit_result.get_covariance_matrix(*args): the method takes no argument.
get_covariance_matrix_call(self_result, args) ==
    IF ensure_initialized(self_result) THEN Raises("NotInitializedError")
    ELSE IF args # <<>> THEN Raises("TypeError")
    ELSE Returns(self_result["covariance-matrix"]["matrix"])

\* Lines 266-271: the fit results are loaded one after the other.
RECURSIVE load_results(_, _, _)
load_results(syst, i, acc) ==
    IF i > Len(syst) THEN Returns(acc)
    ELSE LET loaded == load_config(PriorFiles[syst[i].result])
             translation == update(acc.param_translation, syst[i].param_names)
             keys == keys_in_order(translation)
             cov == get_covariance_matrix_call(loaded.config, <<keys>>)
         IN  IF loaded.error = "OSError" THEN Raises("OSError")
             ELSE IF loaded.error = "ConfigError" THEN Raises("KeyError")
             ELSE IF cov.exc # NoExc THEN Raises(cov.exc)
             ELSE IF \E k \in DOMAIN keys : keys[k] \notin DOMAIN loaded.config["fit-parameters"]
             THEN Raises("KeyError")
             ELSE load_results(syst, i + 1,
                    [param_translation |-> translation,
                     cov_matrices |-> Append(acc.cov_matrices, cov.ret),
                     central_values |-> Append(acc.central_values,
                        np_diag([k \in DOMAIN keys |->
                                    loaded.config["fit-parameters"][keys[k]][1]]))])

\* Lines 276-284.  enumerate(self._gen_pdfs) runs over the keys of the
\* dictionary, the labels, and a label has no getVariables.
find_pdf(gen_pdfs, translation) ==
    IF DOMAIN translation = {} THEN Returns(EmptyDict)
    ELSE IF DOMAIN gen_pdfs = {} THEN Raises("RuntimeError")
    ELSE Raises("AttributeError")

\* Lines 261-284: the object FixedParamsSyst.__init__ leaves behind.
FixedParamsSyst_new(model, config) ==
    LET base == Systematic_new("FixedParamsSyst", model, config)
        loaded == load_results(config.syst, 1,
                    [param_translation |-> EmptyDict, cov_matrices |-> <<>>,
                     central_values |-> <<>>])
        pdf_index == find_pdf(base.ret._gen_pdfs, loaded.ret.param_translation)
    IN  IF base.exc # NoExc THEN base
        ELSE IF "syst" \notin DOMAIN config THEN Raises("KeyError")
        ELSE IF loaded.exc # NoExc THEN loaded
        ELSE IF pdf_index.exc # NoExc THEN pdf_index
        ELSE Returns([cls |-> base.ret.cls,
                      _gen_pdfs |-> base.ret._gen_pdfs,
                      _model |-> base.ret._model,
                      _input_values |-> base.ret._input_values,
                      _config |-> base.ret._config,
                      _param_translation |-> loaded.ret.param_translation,
                      _cov_matrix |-> make_block(loaded.ret.cov_matrices),
                      _central_values |-> make_block(loaded.ret.central_values),
                      _pdf_index |-> pdf_index.ret])

\* Square matrices with entries that differ from each other and from zero.
SquareMatrix(n, tag) ==
    np_matrix([row \in 1..n |-> [col \in 1..n |-> 100 * tag + (row - 1) * n + col]])
BlockInputs ==
    UNION {[1..k -> {SquareMatrix(n, tag) : n \in 0..MaxDim, tag \in 1..2}] :
           k \in 0..MaxBlocks}

\* make_block applied to a list of matrices.  The function keeps no state, so
\* one call per behaviour covers every call.
apply_make_block ==
    /\ toys_call.op = "import"
    /\ UNCHANGED <<fit_vars, run_vars, syst_vars, TOY_SYSTEMATICS, merge_call>>
    /\ \E matrices \in BlockInputs :
        ToysReturn("make_block", matrices, make_block(matrices))

FixedParamsSyst_init ==
    /\ UNCHANGED <<fit_vars, run_vars, merge_call, TOY_SYSTEMATICS>>
    /\ \E model \in Models, config \in FixedConfigs :
        Constructed("FixedParamsSyst", [model |-> model, config |-> config],
                    FixedParamsSyst_new(model, config))

\* numpy.random.multivariate_normal: 'mean must be 1 dimensional'.
draw_sample(mean, cov) ==
    IF has_getA1(mean) THEN {Raises("ValueError")}
    ELSE multivariate_normal(mean.items, cov)

\* Systematic.randomize, lines 189-199, and FixedParamsSyst.randomize, lines
\* 286-299.  Line 298 subscripts the bound method getVariables: TypeError.
randomize_value(self) ==
    IF self.cls = "Systematic"
    THEN {Raises("NotImplementedError")}
    ELSE {IF draw.exc # NoExc THEN Raises(draw.exc)
          ELSE IF DOMAIN self._pdf_index # {} THEN Raises("TypeError")
          ELSE Returns(Len(draw.ret)) :
            draw \in draw_sample(self._central_values, self._cov_matrix)}

randomize ==
    /\ randomizer # None
    /\ UNCHANGED <<fit_vars, run_vars, merge_call, TOY_SYSTEMATICS,
                   randomizer, model_values, original_values>>
    /\ \E outcome \in randomize_value(randomizer) :
        IF outcome.exc # NoExc
        THEN ToysRaise("randomize", NoArg, outcome.exc)
        ELSE ToysReturn("randomize", NoArg, outcome.ret)

(* ---------------------- toys: Systematic.get_dataset ------------------- *)
\* An acceptance keeps a number of the events of each batch it is given.
Acceptances == {None} \cup {[accepts |-> n] : n \in {0, MaxYield + 1}}
\* poisson.rvs(pdf.expectedEvents(obs)), and the size of an extended sample.
Yields == 0..MaxYield

DataFrame(events) == [type |-> "DataFrame", events |-> events]

\* Lines 169-180.  yield_to_generate keeps its value; the truth value of the
\* data frame kept from the first pass is asked for in the second: ValueError.
RECURSIVE accept_loop(_, _, _, _)
accept_loop(acceptance, yield_to_generate, pandas_dataset, batches) ==
    IF yield_to_generate = 0
    THEN [exc |-> NoExc, frame |-> pandas_dataset, batches |-> batches]
    ELSE LET requested == yield_to_generate * 2
             accepted == Min(acceptance.accepts, requested)
             events == IF accepted > yield_to_generate THEN yield_to_generate ELSE accepted
             asked == Append(batches, requested)
         IN  IF pandas_dataset = None
             THEN accept_loop(acceptance, yield_to_generate, DataFrame(events), asked)
             ELSE [exc |-> "ValueError", frame |-> pandas_dataset, batches |-> asked]

\* The generation PDFs in the order of the loops of lines 160 and 164.
LabelOrder == <<NoLabel, "l1", "l2">>
RECURSIVE pdfs_in_order(_, _)
pdfs_in_order(gen_pdfs, n) ==
    IF n = 0 THEN <<>>
    ELSE pdfs_in_order(gen_pdfs, n - 1) \o
         (IF LabelOrder[n] \in DOMAIN gen_pdfs
          THEN [k \in DOMAIN gen_pdfs[LabelOrder[n]] |->
                    [label |-> LabelOrder[n], pdf |-> gen_pdfs[LabelOrder[n]][k]]]
          ELSE <<>>)

\* dataset_from_pandas(None, ...): whether the converter takes None is open.
dataset_from_pandas(frame, none_ok) ==
    IF frame = None
    THEN IF none_ok THEN Returns([type |-> "RooDataSet", events |-> 0])
         ELSE Raises("TypeError")
    ELSE Returns([type |-> "RooDataSet", events |-> frame.events])

\* Line 187: merge_root(datasets_to_merge, 'GenData', 'GenData') binds the
\* list to name and the string 'GenData' to data_list; mergers.py line 61 asks
\* the first character of that string for get(): AttributeError.
merge_root_of_str(name, title, data_list) == Raises("AttributeError")

\* Lines 157-187 for the PDFs from the i-th on.  A request records the PDF, the
\* values of the model it is generated from and the sizes asked for.
RECURSIVE generate_datasets(_, _, _, _, _, _, _, _)
generate_datasets(self, values, acceptance, target, none_ok, i, datasets, generated) ==
    LET pdfs == pdfs_in_order(self._gen_pdfs, Len(LabelOrder))
        Ended(error, requests) == [exc |-> error, ret |-> None, generated |-> requests]
    IN  IF i > Len(pdfs)
        THEN Ended(merge_root_of_str(datasets, "GenData", "GenData").exc, generated)
        ELSE IF self._model.simultaneous /\ pdfs[i].label = NoLabel
        THEN Ended("AttributeError", generated)
        ELSE IF acceptance # None
        THEN LET loop == accept_loop(acceptance, target, None, <<>>)
                 request == [pdf |-> i, values |-> values, target |-> target,
                             extended |-> FALSE, batches |-> loop.batches]
                 converted == dataset_from_pandas(loop.frame, none_ok)
             IN  IF loop.exc # NoExc THEN Ended(loop.exc, Append(generated, request))
                 ELSE IF converted.exc # NoExc
                 THEN Ended(converted.exc, Append(generated, request))
                 ELSE generate_datasets(self, values, acceptance, target, none_ok, i + 1,
                        Append(datasets, converted.ret), Append(generated, request))
        ELSE generate_datasets(self, values, acceptance, target, none_ok, i + 1,
                Append(datasets, [type |-> "RooDataSet", events |-> target]),
                Append(generated, [pdf |-> i, values |-> values, target |-> target,
                                   extended |-> TRUE, batches |-> <<>>]))

\* Systematic.get_dataset, lines 138-187.
get_dataset ==
    /\ randomizer # None
    /\ UNCHANGED <<fit_vars, run_vars, merge_call, TOY_SYSTEMATICS,
                   randomizer, model_values, original_values>>
    /\ \E acceptance \in Acceptances, do_randomize \in BOOLEAN, target \in Yields,
          none_ok \in BOOLEAN :
        \E randomized \in (IF do_randomize THEN randomize_value(randomizer)
                                            ELSE {Returns(0)}) :
            LET outcome ==
                    IF randomized.exc # NoExc
                    THEN [exc |-> randomized.exc, ret |-> None, generated |-> <<>>]
                    ELSE generate_datasets(randomizer, model_values, acceptance, target,
                                           none_ok, 1, <<>>, <<>>)
            IN  toys_call' = [op |-> "get_dataset",
                              arg |-> [acceptance |-> acceptance, randomize |-> do_randomize],
                              ret |-> outcome.ret, exc |-> outcome.exc,
                              generated |-> outcome.generated]

SystInit ==
    /\ TOY_SYSTEMATICS = EmptyDict
    /\ randomizer = None
    /\ model_values = EmptyDict
    /\ original_values = EmptyDict
    /\ toys_call = [op |-> "import", arg |-> NoArg, ret |-> None, exc |-> NoExc]

SystNext ==
    \/ register_systematic
    \/ get_systematic
    \/ Systematic_init
    \/ FixedParamsSyst_init
    \/ get_input_values
    \/ randomize
    \/ fit_model
    \/ get_dataset

(* --------------------------- data: mergers ----------------------------- *)
RooDataSet(id, variables, events) ==
    [type |-> "RooDataSet", id |-> id, variables |-> variables, events |-> events]
RootData ==
    {RooDataSet(1, {"x"}, <<1>>), RooDataSet(2, {"x"}, <<2, 3>>),
     RooDataSet(3, {"x", "y"}, <<4>>), RooDataSet(4, {"x"}, <<>>)}
OtherData == {[type |-> "DataFrame", id |-> 5], [type |-> "dict", id |-> 6]}

\* Lists of different objects, at most MaxData of them.
ListsOf(pool) ==
    UNION {{list \in [1..n -> pool] :
                \A i \in 1..n : \A j \in 1..n : i # j => list[i].id # list[j].id} :
           n \in 0..MaxData}

\* A check that accepts a dataset with fewer observables than the first.
incompatible_mut(data_list) ==
    \E i \in DOMAIN data_list : ~(data_list[i].variables \subseteq data_list[1].variables)

\* Lines 61-63: some dataset has other observables than the first.
incompatible(data_list) ==
    \E i \in DOMAIN data_list : data_list[i].variables # data_list[1].variables

\* Lines 69-72: append, then destruct, one dataset after the other.
RECURSIVE merge_loop(_, _, _, _)
merge_loop(data_list, i, destruct_data, state) ==
    IF i > Len(data_list) THEN state
    ELSE merge_loop(data_list, i + 1, destruct_data,
            [events |-> state.events \o data_list[i].events,
             trace |-> state.trace
                        \o <<[do |-> "append", id |-> data_list[i].id]>>
                        \o (IF destruct_data
                            THEN <<[do |-> "destruct", id |-> data_list[i].id]>>
                            ELSE <<>>)])

\* Lines 45-75.  trace lists what was done to the datasets, in order.
merge_root_value(name, title, data_list, destruct_data) ==
    IF Len(data_list) = 0
    THEN [exc |-> "IndexError", ret |-> None, trace |-> <<>>]
    ELSE IF incompatible(data_list)
    THEN [exc |-> "ValueError", ret |-> None, trace |-> <<>>]
    ELSE LET merged == merge_loop(data_list, 1, destruct_data,
                          [events |-> <<>>, trace |-> <<[do |-> "create", id |-> 0]>>])
         IN  [exc |-> NoExc,
              ret |-> [type |-> "RooDataSet", name |-> name, title |-> title,
                       variables |-> data_list[1].variables, events |-> merged.events],
              trace |-> merged.trace]

MergeCalled(method, args, root_args, outcome) ==
    merge_call' = [op |-> method, args |-> args, root_args |-> root_args,
                   exc |-> outcome.exc, ret |-> outcome.ret, trace |-> outcome.trace]

merge_root ==
    /\ UNCHANGED <<fit_vars, run_vars, syst_vars, TOY_SYSTEMATICS, toys_call>>
    /\ \E data_list \in ListsOf(RootData), destruct_data \in BOOLEAN :
        LET args == [name |-> "GenData", title |-> "GenData", data_list |-> data_list,
                     destruct_data |-> destruct_data]
        IN  MergeCalled("merge_root", args, args,
                        merge_root_value("GenData", "GenData", data_list, destruct_data))

\* The keyword arguments of merge.
MergeKwargs == {EmptyDict, [name |-> "merged"], [name |-> "merged", title |-> "Merged"]}

\* Lines 16-42.
merge ==
    /\ UNCHANGED <<fit_vars, run_vars, syst_vars, TOY_SYSTEMATICS, toys_call>>
    /\ \E data_list \in ListsOf(RootData \cup OtherData), kwargs \in MergeKwargs :
        LET args == [data_list |-> data_list, kwargs |-> kwargs]
            failed(error) == [exc |-> error, ret |-> None, trace |-> <<>>]
            root_args == [name |-> kwargs.name,
                          title |-> get(kwargs, "title", kwargs.name),
                          data_list |-> data_list, destruct_data |-> TRUE]
        IN  IF Cardinality({data_list[i].type : i \in DOMAIN data_list}) # 1
            THEN MergeCalled("merge", args, None, failed("ValueError"))
            ELSE IF data_list[1].type = "RooDataSet"
            THEN IF "name" \notin DOMAIN kwargs
                 THEN MergeCalled("merge", args, None, failed("KeyError"))
                 ELSE MergeCalled("merge", args, root_args,
                        merge_root_value(root_args.name, root_args.title,
                                         root_args.data_list, root_args.destruct_data))
            ELSE IF data_list[1].type = "DataFrame"
            THEN MergeCalled("merge", args, None,
                             [exc |-> NoExc, ret |-> None, trace |-> <<>>])
            ELSE MergeCalled("merge", args, None, failed("AttributeError"))

MergeInit ==
    merge_call = [op |-> "import", args |-> NoArg, root_args |-> None,
                  exc |-> NoExc, ret |-> None, trace |-> <<>>]

MergeNext ==
    \/ merge_root
    \/ merge

(* ---------------------------- specifications --------------------------- *)
Init == FitInit /\ RunInit /\ SystInit /\ MergeInit

\* The life of one FitResult object.
Next == FitNext
Spec == Init /\ [][Next]_vars

\* One execution of the toy script.
SpecRun == Init /\ [][RunNext]_vars

\* The registry of systematics and the life of one systematic generator.
SpecSyst == Init /\ [][SystNext]_vars

\* Calls of the dataset mergers.
SpecMerge == Init /\ [][MergeNext]_vars

\* make_block as a function of its arguments.
SpecBlock == Init /\ [][apply_make_block]_vars

(* ------------------------------ properties ----------------------------- *)
PopulateOps == {"from_roofit", "from_yaml", "from_yaml_file"}
ReadOps ==
    {"to_yaml", "to_yaml_file", "to_plain_dict", "get_fit_parameter",
     "get_const_parameter", "get_fit_parameters", "get_covariance_matrix",
     "get_edm", "has_converged", "generate_random_pars"}

Populated == result # None
NumFit == Cardinality(DOMAIN result["fit-parameters"])
NumConst == Cardinality(DOMAIN result["const-parameters"])

\* C1: a populate call (from_roofit, from_yaml, from_yaml_file) on a populated
\* FitResult raises AlreadyInitializedError and leaves the stored record as it
\* was, whichever operation populated it and whatever the argument.
C1_PopulateTwiceFails ==
    [][(Populated /\ op' \in PopulateOps)
        => (exc' = "AlreadyInitializedError" /\ result' = result)]_vars

C1_Witness ==
    /\ Populated
    /\ op \in PopulateOps
    /\ exc = "AlreadyInitializedError"

\* C2: a read accessor called on a FitResult that was never populated raises
\* NotInitializedError, and the FitResult stays empty.
C2_ReadBeforePopulateFails ==
    [][(~Populated /\ op' \in ReadOps)
        => (exc' = "NotInitializedError" /\ result' = None)]_vars

C2_Witness ==
    /\ ~Populated
    /\ op \in ReadOps
    /\ exc = "NotInitializedError"
    /\ load_failed

\* C3: round trip.  When a FitResult was populated by from_yaml from a
\* well-formed record, to_yaml returns a record equal to the record as it was
\* before from_yaml: same keys, same maps, same flat row-major covariance.
C3_RoundTrip ==
    (Populated /\ yaml_before # None /\ op = "to_yaml")
        => (exc = NoExc /\ ret = yaml_before)

C3_Witness ==
    /\ Populated
    /\ yaml_before # None
    /\ op = "to_yaml"
    /\ exc = NoExc
    /\ Cardinality(DOMAIN yaml_before["fit-parameters"]) = 2
    /\ yaml_before["covariance-matrix"]["matrix"].items = <<0, 1, 0, 0>>

\* C4: has_converged on a populated FitResult returns true exactly when every
\* status code of the stored status equals 0 and the covariance quality is 3.
C4_HasConverged ==
    (Populated /\ op = "has_converged")
        => /\ exc = NoExc
           /\ ret = (/\ \A label \in DOMAIN result["status"] : result["status"][label] = 0
                     /\ result["covariance-matrix"]["quality"] = 3)

C4_Witness ==
    /\ Populated
    /\ op = "has_converged"
    /\ ret = FALSE
    /\ result["covariance-matrix"]["quality"] = 3
    /\ Cardinality({label \in DOMAIN result["status"] : result["status"][label] # 0}) = 1
    /\ Cardinality(DOMAIN result["status"]) = 2

\* C5: for a populated FitResult with K fit and M constant parameters,
\* to_plain_dict returns 4K + M + 5 entries when the covariance is skipped,
\* and the cov_matrix entry is present exactly when it is not skipped.
C5_PlainDictSize ==
    (Populated /\ op = "to_plain_dict")
        => /\ exc = NoExc
           /\ ("cov_matrix" \in DOMAIN ret) = (~arg)
           /\ Cardinality(DOMAIN ret \ {"cov_matrix"}) = 4 * NumFit + NumConst + 5
           /\ {"status_migrad", "status_hesse", "status_minos", "cov_quality", "edm"}
                \subseteq DOMAIN ret

\* C6: for a FitResult populated from an engine result, to_plain_dict stores for
\* every fit parameter p the value under p, the Hesse error under p_err_hesse,
\* the upper error (getErrorHi) under p_err_plus and the lower error
\* (getErrorLo) under p_err_minus.
C6_PlainDictErrors ==
    (Populated /\ engine_pars # None /\ op = "to_plain_dict" /\ exc = NoExc)
        => \A i \in DOMAIN engine_pars.floatParsFinal :
              LET par == engine_pars.floatParsFinal[i]
              IN  /\ ret[par.name] = par.val
                  /\ ret[par.name \o "_err_hesse"] = par.error
                  /\ ret[par.name \o "_err_plus"] = par.errorHi
                  /\ ret[par.name \o "_err_minus"] = par.errorLo

\* The record lacks a key from_yaml needs.
LacksKeys(d) ==
    \/ \E key \in {"fit-parameters", "fit-parameters-initial", "const-parameters",
                   "covariance-matrix", "status"} : key \notin DOMAIN d
    \/ \E key \in {"quality", "matrix"} : key \notin DOMAIN d["covariance-matrix"]

\* C7: from_yaml on an empty FitResult with a record that lacks a required key
\* raises KeyError, the FitResult stays empty and the record is not modified;
\* a later populate call on the same FitResult succeeds.
C7_MissingKeys ==
    /\ []((op = "from_yaml" /\ yaml_before # None /\ LacksKeys(yaml_before))
            => (exc = "KeyError" /\ ~Populated /\ yaml_dict = yaml_before))
    /\ [][(load_failed /\ ~Populated /\ op' = "from_roofit")
            => (exc' = NoExc /\ result' # None)]_vars

C7_Witness ==
    /\ load_failed
    /\ Populated
    /\ op \in PopulateOps
    /\ exc = NoExc

\* C8: on a populated FitResult get_fit_parameter(name) returns the stored
\* tuple of a fit parameter and raises KeyError for any other name,
\* get_const_parameter(name) likewise for the constants, and neither changes
\* the FitResult.
C8_ParameterLookup ==
    /\ []((Populated /\ op = "get_fit_parameter")
            => IF arg \in DOMAIN result["fit-parameters"]
               THEN exc = NoExc /\ ret = result["fit-parameters"][arg]
               ELSE exc = "KeyError")
    /\ []((Populated /\ op = "get_const_parameter")
            => IF arg \in DOMAIN result["const-parameters"]
               THEN exc = NoExc /\ ret = result["const-parameters"][arg]
               ELSE exc = "KeyError")
    /\ [][(Populated /\ op' \in {"get_fit_parameter", "get_const_parameter"})
            => result' = result]_vars

C8_Witness ==
    /\ Populated
    /\ op = "get_const_parameter"
    /\ exc = "KeyError"
    /\ arg \in DOMAIN result["fit-parameters"]

\* C9: populated is terminal.  No operation changes the stored record of a
\* populated FitResult or empties it; in particular the stored covariance
\* matrix is still a square matrix after to_yaml.
C9_PopulatedIsTerminal ==
    [][Populated => result' = result]_vars

C9_Witness ==
    /\ Populated
    /\ op = "to_yaml"
    /\ exc = NoExc
    /\ has_getA1(result["covariance-matrix"]["matrix"])
    /\ Len(result["covariance-matrix"]["matrix"].rows) = 2

\* C10: when the generation or one of the two fits of iteration i raises, run
\* raises RuntimeError and main exits with status 4, no further iteration is
\* started, iteration i is not repeated, and nothing is appended to the store.
C10_FailedIterationAborts ==
    failed_at # {}
        => /\ run_exc = "RuntimeError"
           /\ pc \in {"raised", "exited"}
           /\ pc = "exited" => exit_status = 4
           /\ store = <<>>
           /\ Cardinality(failed_at) = 1
           /\ \A i \in failed_at :
                /\ iterations[Len(iterations)] = i
                /\ \A k \in 1..(Len(iterations) - 1) : iterations[k] < i

C10_Witness ==
    /\ failed_at # {}
    /\ pc = "exited"
    /\ exit_status = 4
    /\ fit_result_nominal # None
    /\ fit_result_rand = None

\* run is inside the sampling-fit loop.
InLoop == pc \in {"loop", "generate", "fit_nominal", "fit_rand", "record"}

\* run has ended without a configuration problem and without an exception in
\* the generation or the fits of any iteration.
RunEndedUndisturbed ==
    /\ pc = "exited"
    /\ config_problem = NoProblem
    /\ failed_at = {}

\* C11: nothing is appended to the output store while the sampling-fit loop is
\* running, and a step that leaves the loop by an exception leaves the store
\* empty: all appends come after the last iteration.
C11_WritesAfterLoop ==
    /\ [](InLoop => store = <<>>)
    /\ [][InLoop => store' = <<>>]_vars
    /\ [][pc = "raised" => store' = store]_vars

C11_Witness ==
    /\ pc = "raised"
    /\ run_exc \in unbound_from_roofit
    /\ fit_result_rand # None
    /\ iterations = <<0>>
    /\ store = <<>>

\* C12: a run of N iterations whose generation and fits all succeed ends
\* normally and has appended a fit_results table with exactly N rows, row i
\* being the record of iteration i.
C12_OneRowPerIteration ==
    RunEndedUndisturbed
        => /\ exit_status = 0
           /\ \E k \in DOMAIN store :
                /\ store[k].key = "fit_results"
                /\ Len(store[k].rows) = nfits
                /\ \A i \in 1..nfits : store[k].rows[i].fitnum = i - 1

\* C13: a run of N >= 1 iterations whose generation and fits all succeed has
\* appended, for every iteration i, one covariance table of the randomized
\* fit and one of the nominal fit, 2N tables in all.
C13_CovarianceTables ==
    (RunEndedUndisturbed /\ nfits >= 1)
        => /\ \A i \in 0..(nfits - 1) : \A kind \in {"rand", "nominal"} :
                \E k \in DOMAIN store :
                    /\ store[k].key = "covariance"
                    /\ store[k].fitnum = i
                    /\ store[k].kind = kind
           /\ Cardinality({k \in DOMAIN store : store[k].key = "covariance"}) = 2 * nfits

\* The configuration problems that are a missing or malformed key.
KeyProblems ==
    {"missing_keys", "yaml_key_error", "missing_model", "bad_acceptance", "missing_syst"}

\* C14: a configuration problem makes run raise before the first iteration;
\* a missing or malformed key ends in exit status 1, an unreadable file in
\* exit status 2.
C14_ConfigErrors ==
    /\ config_problem # NoProblem => iterations = <<>>
    /\ (pc = "exited" /\ config_problem \in KeyProblems)
            => (run_exc = "KeyError" /\ exit_status = 1)
    /\ (pc = "exited" /\ config_problem = "unreadable")
            => (run_exc = "OSError" /\ exit_status = 2)

\* C16: get_input_values returns the values the parameters and yields of the
\* generation model had when the systematic was constructed, whatever was
\* randomized or fitted before the call.
C16_InputValues ==
    toys_call.op = "get_input_values"
        => /\ toys_call.exc = NoExc
           /\ toys_call.ret = [name \in DOMAIN original_values |-> <<original_values[name]>>]

\* C17: randomize of a FixedParamsSyst draws one component per mapped
\* parameter, sets the mapped parameters and returns their number.
C17_Randomize ==
    (toys_call.op = "randomize" /\ randomizer.cls = "FixedParamsSyst")
        => /\ toys_call.exc = NoExc
           /\ toys_call.ret = Cardinality(DOMAIN randomizer._param_translation)
           /\ \A name \in DOMAIN model_values \ DOMAIN randomizer._pdf_index :
                model_values[name] = original_values[name]

\* The generation-model names a FixedParamsSyst configuration maps to.
MappedNames(config) ==
    UNION {{config.syst[i].param_names[key] : key \in DOMAIN config.syst[i].param_names} :
           i \in DOMAIN config.syst}

\* The constructor was given an extended model and fit results that exist.
WellConfigured(argument) ==
    /\ argument.model.extended
    /\ "syst" \in DOMAIN argument.config
    /\ \A i \in DOMAIN argument.config.syst : argument.config.syst[i].result = "prior"

\* C18: the construction of a FixedParamsSyst raises RuntimeError exactly when
\* a mapped name is no variable of a generation PDF; otherwise it succeeds
\* and every mapped name has the index of a PDF that contains it.
C18_UnknownParameter ==
    (toys_call.op = "FixedParamsSyst" /\ WellConfigured(toys_call.arg))
        => IF \E name \in MappedNames(toys_call.arg.config) :
                    name \notin toys_call.arg.model.variables
           THEN toys_call.exc = "RuntimeError"
           ELSE /\ toys_call.exc = NoExc
                /\ DOMAIN randomizer._pdf_index = MappedNames(toys_call.arg.config)

\* The events of the first n datasets of a list, one dataset after the other.
RECURSIVE AllEvents(_, _)
AllEvents(data_list, n) ==
    IF n = 0 THEN <<>> ELSE AllEvents(data_list, n - 1) \o data_list[n].events

\* C19: merge_root raises ValueError when a dataset of the list has other
\* observables than the first, and then nothing was created or destroyed;
\* otherwise the merged dataset holds the events of the inputs in list order
\* and, with destruct_data, each input is destroyed right after its append.
C19_MergeRoot ==
    (merge_call.root_args # None /\ merge_call.root_args.data_list # <<>>)
        => LET data_list == merge_call.root_args.data_list
               trace == merge_call.trace
           IN  IF \E i \in DOMAIN data_list :
                      data_list[i].variables # data_list[1].variables
               THEN /\ merge_call.exc = "ValueError"
                    /\ merge_call.ret = None
                    /\ trace = <<>>
               ELSE /\ merge_call.exc = NoExc
                    /\ merge_call.ret.events = AllEvents(data_list, Len(data_list))
                    /\ trace[1].do = "create"
                    /\ \A i \in DOMAIN data_list :
                         \E k \in DOMAIN trace :
                            /\ trace[k] = [do |-> "append", id |-> data_list[i].id]
                            /\ merge_call.root_args.destruct_data
                                 => /\ k + 1 \in DOMAIN trace
                                    /\ trace[k + 1] = [do |-> "destruct", id |-> data_list[i].id]
                            /\ \A j \in i + 1..Len(data_list) : \E m \in k + 1..Len(trace) :
                                    trace[m] = [do |-> "append", id |-> data_list[j].id]
                    /\ Cardinality({k \in DOMAIN trace : trace[k].do = "destruct"})
                         = (IF merge_call.root_args.destruct_data THEN Len(data_list) ELSE 0)

C19_Witness ==
    /\ merge_call.op = "merge_root"
    /\ merge_call.exc = NoExc
    /\ merge_call.args.destruct_data
    /\ Len(merge_call.args.data_list) = 2
    /\ merge_call.ret.events = <<2, 3, 1>>

\* A class object of a class derived from Systematic.
IsSystematicClass(obj) == obj.kind = "class" /\ "Systematic" \in mro(obj.name)

\* C20: register_systematic stores a class derived from Systematic under its
\* name and returns the size of the registry, and rejects anything else with
\* ValueError; get_systematic returns the class registered under the type and
\* raises KeyError for a type that is not registered.
C20_Registry ==
    /\ (toys_call.op = "register_systematic" /\ IsSystematicClass(toys_call.arg.syst_class))
            => /\ toys_call.exc = NoExc
               /\ TOY_SYSTEMATICS[toys_call.arg.name] = toys_call.arg.syst_class
               /\ toys_call.ret = Cardinality(DOMAIN TOY_SYSTEMATICS)
    /\ (toys_call.op = "register_systematic" /\ ~IsSystematicClass(toys_call.arg.syst_class))
            => toys_call.exc = "ValueError"
    /\ (toys_call.op = "get_systematic" /\ "type" \in DOMAIN toys_call.arg)
            => IF toys_call.arg.type \in DOMAIN TOY_SYSTEMATICS
               THEN toys_call.ret = TOY_SYSTEMATICS[toys_call.arg.type]
               ELSE toys_call.exc = "KeyError"

\* The number of rows of the matrices before the i-th of a list.
RECURSIVE BlockStart(_, _)
BlockStart(matrices, i) ==
    IF i <= 1 THEN 0 ELSE BlockStart(matrices, i - 1) + Len(matrices[i - 1].rows)

\* C21: for square matrices of sizes n1..nk make_block returns a square
\* matrix of size n1+...+nk with the i-th matrix as its i-th diagonal block
\* and zero everywhere else.
C21_MakeBlock ==
    toys_call.op = "make_block"
        => LET matrices == toys_call.arg
               out == toys_call.ret.rows
               size == BlockStart(matrices, Len(matrices) + 1)
               in_block(i, row) ==
                    row > BlockStart(matrices, i) /\ row <= BlockStart(matrices, i + 1)
           IN  /\ Len(out) = size
               /\ \A row \in 1..size : Len(out[row]) = size
               /\ \A i \in DOMAIN matrices :
                    \A row \in 1..Len(matrices[i].rows) : \A col \in 1..Len(matrices[i].rows) :
                        out[BlockStart(matrices, i) + row][BlockStart(matrices, i) + col]
                            = matrices[i].rows[row][col]
               /\ \A row \in 1..size : \A col \in 1..size :
                    (~\E i \in DOMAIN matrices : in_block(i, row) /\ in_block(i, col))
                        => out[row][col] = 0

C21_Witness ==
    /\ toys_call.op = "make_block"
    /\ Len(toys_call.arg) = 2
    /\ Len(toys_call.arg[1].rows) = 2
    /\ Len(toys_call.arg[2].rows) = 3
    /\ Len(toys_call.ret.rows) = 5
    /\ toys_call.ret.rows[3][3] = toys_call.arg[2].rows[1][1]
    /\ toys_call.ret.rows[3][2] = 0

\* C22: a FixedParamsSyst built from at least one prior fit result holds a
\* vector of central values with one entry per mapped parameter, as long as
\* the combined covariance matrix is wide, each block of that matrix covering
\* the mapped parameters of its own fit result.
C22_CentralValues ==
    (/\ toys_call.op = "FixedParamsSyst"
     /\ WellConfigured(toys_call.arg)
     /\ Len(toys_call.arg.config.syst) >= 1
     /\ MappedNames(toys_call.arg.config) \subseteq toys_call.arg.model.variables)
        => /\ toys_call.exc = NoExc
           /\ ~has_getA1(randomizer._central_values)
           /\ Len(randomizer._central_values.items)
                = Cardinality(DOMAIN randomizer._param_translation)
           /\ shape0(randomizer._cov_matrix) = Len(randomizer._central_values.items)
           /\ shape1(randomizer._cov_matrix) = Len(randomizer._central_values.items)

\* The events asked of the first n generation requests of a call.
RECURSIVE TargetSum(_, _)
TargetSum(requests, n) ==
    IF n = 0 THEN 0 ELSE TargetSum(requests, n - 1) + requests[n].target

\* C23: with an acceptance, get_dataset asks each PDF for batches of twice its
\* Poisson target, stops once the target is accepted and returns a dataset
\* with exactly the target number of events of each PDF.
C23_AcceptanceLoop ==
    (/\ toys_call.op = "get_dataset"
     /\ toys_call.arg.acceptance # None
     /\ ~toys_call.arg.randomize)
        => /\ toys_call.exc = NoExc
           /\ \A k \in DOMAIN toys_call.generated :
                \A b \in DOMAIN toys_call.generated[k].batches :
                    toys_call.generated[k].batches[b] = 2 * toys_call.generated[k].target
           /\ toys_call.ret.events
                = TargetSum(toys_call.generated, Len(toys_call.generated))

\* The steps of one iteration in the order the loop body takes them.
StepOrder == <<"seed", "randomize", "generate", "fit_nominal", "fit_rand">>
CallsOf(iteration) == SelectSeq(calls, LAMBDA c : c.fit_num = iteration)

C25_Destroyed ==
    (pc \in {"raised", "exited"} /\ fit_result_rand # None)
        => \A object \in {"fit_result_nominal", "fit_result_rand", "dataset"} :
            \E k \in DOMAIN calls :
                /\ calls[k].step = "destruct"
                /\ calls[k].fit_num = fit_num
                /\ calls[k].with = object

\* C26: after a populate operation that returned normally the FitResult holds
\* every field, the edm and a square matrix with one row per fit parameter
\* included, and the read accessors return without error.
C26_FullyPopulated ==
    (op \in PopulateOps \cup {"from_hdf"} /\ exc = NoExc)
        => /\ truth(result)
           /\ RequiredKeys \cup {"edm"} \subseteq DOMAIN result
           /\ LET matrix == result["covariance-matrix"]["matrix"]
                   size == Cardinality(DOMAIN result["fit-parameters"])
               IN  /\ has_getA1(matrix)
                   /\ Len(matrix.rows) = size
                   /\ \A row \in DOMAIN matrix.rows : Len(matrix.rows[row]) = size
           /\ get_edm_value(result).exc = NoExc
           /\ to_yaml_value(result).exc = NoExc
           /\ to_plain_dict_value(result, FALSE).exc = NoExc

\* The parameters the systematic sets when it randomizes.
Randomized ==
    IF "_pdf_index" \in DOMAIN randomizer THEN DOMAIN randomizer._pdf_index ELSE {}

C28_StatusHistory ==
    (op = "from_roofit" /\ exc = NoExc)
        => /\ Cardinality(DOMAIN result["status"]) = Len(arg.statusHistory)
           /\ (\E stage \in DOMAIN arg.statusHistory : arg.statusHistory[stage][2] # 0)
                => ~has_converged_value(result)

====
